---- MODULE Spec2Model ----
(***************************************************************************)
(* Model of the page-level OCR pipeline of pdf_processor:                  *)
(*   pipeline.py   PDFProcessor.process_single_pdf / process_batch /       *)
(*                 process_directory                                       *)
(*   claude_ocr.py ClaudeOCR.process_image / _parse_claude_response        *)
(*   models.py     Component, Page, ProcessedDocument (pydantic models)    *)
(*   utils.py      validate_pdf_path, clean_temp_images, save_json_output, *)
(*                 estimate_expected_components                            *)
(*   pdf_converter.py PDFConverter.get_pdf_info / convert_pdf_to_images    *)
(*                                                                         *)
(* Conventions.  A confidence is a float in the code; here it is an        *)
(* integer number of hundredths (95 stands for 0.95).  A ratio of two      *)
(* integers (completeness, average_confidence) is kept as the pair         *)
(* [num, den], so that "<= 1.0" is num <= den.  Python's None is the       *)
(* record None.                                                            *)
(***************************************************************************)
EXTENDS Integers, Sequences, FiniteSets, TLC

(* ----------------------------- configuration --------------------------- *)

MAX_RETRIES == 3

RETRY_DELAY == 2

AVG_COMPONENTS_PER_PAGE == 8

COMPONENT_TYPES == <<"text", "table", "image", "header", "footer">>

(* ------------------------------- bounds -------------------------------- *)

\* largest page count of an input PDF
MaxPages == 3

\* largest number of input files of one batch / directory run
MaxFiles == 2

(* ------------------------------ helpers -------------------------------- *)

None == [none |-> TRUE]

IsNone(x) == DOMAIN x = {"none"}

Range(s) == {s[k] : k \in 1..Len(s)}

RECURSIVE SumSeq(_)
SumSeq(s) == IF s = <<>> THEN 0 ELSE Head(s) + SumSeq(Tail(s))

(* ------------------------- models.py: Component ------------------------ *)

\* Field(ge=0.0, le=1.0), in hundredths
UnitInterval(v) == v >= 0 /\ v <= 100

\* validate_type that accepts every type
validate_type_any(v) == TRUE

validate_type(v) == v \in Range(COMPONENT_TYPES)

\* Component(component_id=..., type=..., content=..., confidence=..., bbox=...):
\* TRUE iff pydantic accepts the keyword arguments kw
ComponentValid(kw) ==
    /\ validate_type(kw.type)
    /\ UnitInterval(kw.confidence)
    /\ Len(kw.bbox) = 4

Component(kw) ==
    [component_id |-> kw.component_id, type |-> kw.type, content |-> kw.content,
     confidence |-> kw.confidence, bbox |-> kw.bbox]

(* --------------------------- models.py: Page --------------------------- *)

\* pydantic validates the fields in the order of their declaration and hands
\* a validator the fields validated BEFORE its own (values).  component_count
\* is declared before components, so 'components' is not in values when
\* validate_component_count runs.
validate_component_count(v, values) ==
    ~ ("components" \in DOMAIN values /\ v # Len(values.components))

PageValid(kw) ==
    LET v1 == [page_number |-> kw.page_number]
    IN  /\ kw.page_number >= 1
        /\ kw.component_count >= 0
        /\ validate_component_count(kw.component_count, v1)

\* every Page numbered 1
PageNumberOne(kw) ==
    [page_number |-> 1, component_count |-> kw.component_count,
     components |-> kw.components]

Page(kw) ==
    [page_number |-> kw.page_number, component_count |-> kw.component_count,
     components |-> kw.components]

(* --------------------- models.py: ComponentStatistics ------------------ *)

ComponentStatistics == [t \in Range(COMPONENT_TYPES) |-> 0]

(* ---------------------- models.py: ProcessedDocument ------------------- *)

\* a float that is the quotient of two integers
Ratio(n, d) == [num |-> n, den |-> d]

\* Field(ge=0.0, le=1.0) on a quotient with a positive denominator
RatioInUnit(r) == r.num >= 0 /\ r.num <= r.den

\* the fields of ProcessedDocument in the order of their declaration, which
\* is the order pydantic validates them in
DOC_FIELDS ==
    <<"job_id", "filename", "compilation_time", "total_pages",
      "total_components", "expected_components", "completeness",
      "component_statistics", "average_confidence", "pages">>

validate_total_pages(v, values) ==
    ~ ("pages" \in DOMAIN values /\ v # Len(values.pages))

validate_total_components(v, values) ==
    ~ ( /\ "pages" \in DOMAIN values
        /\ v # SumSeq([k \in 1..Len(values.pages) |->
                          values.pages[k].component_count]) )

calculate_completeness(v, values) ==
    IF /\ "total_components" \in DOMAIN values
       /\ "expected_components" \in DOMAIN values
       /\ values.expected_components > 0
    THEN Ratio(values.total_components, values.expected_components)
    ELSE Ratio(1, 1)

\* does field f with input value v pass its Field(...) constraints and its
\* validator, given the fields validated before it
DocFieldOK(f, v, values) ==
    CASE f = "total_pages"         -> v >= 1 /\ validate_total_pages(v, values)
      [] f = "total_components"    -> v >= 0 /\ validate_total_components(v, values)
      [] f = "expected_components" -> v >= 0
      [] f = "completeness"        -> RatioInUnit(v)
      [] f = "average_confidence"  -> RatioInUnit(v)
      [] OTHER                     -> TRUE

\* the value the field gets: a validator's return value replaces the input
DocFieldValue(f, v, values) ==
    IF f = "completeness" THEN calculate_completeness(v, values) ELSE v

\* values after the first n fields: a field that failed is left out
RECURSIVE DocValues(_, _)
DocValues(kw, n) ==
    IF n = 0 THEN [x \in {} |-> 0]
    ELSE LET values == DocValues(kw, n - 1)
             f      == DOC_FIELDS[n]
         IN  IF DocFieldOK(f, kw[f], values)
             THEN [x \in DOMAIN values \cup {f} |->
                      IF x = f THEN DocFieldValue(f, kw[f], values) ELSE values[x]]
             ELSE values

\* ProcessedDocument(**kw): the record, or None for a ValidationError
ProcessedDocument(kw) ==
    LET values == DocValues(kw, Len(DOC_FIELDS))
    IN  IF DOMAIN values = Range(DOC_FIELDS)
        THEN [f \in Range(DOC_FIELDS) |-> values[f]]
        ELSE None

(* ------------------- the model's reply: text as tokens ----------------- *)

\* A reply text is a sequence of tokens: a run of prose without braces, an
\* opening or closing brace, or the members of a JSON object: a "components"
\* array of component objects.  A component object is the record of its
\* values with the set of the keys it has (keys).
Prose == [k |-> "prose"]

LBrace == [k |-> "{"]

RBrace == [k |-> "}"]

Members(items) == [k |-> "members", components |-> items]

CompData(ty, conf) ==
    [keys |-> {"component_id", "type", "content", "confidence", "bbox"},
     component_id |-> "id", type |-> ty, content |-> "c",
     confidence |-> conf, bbox |-> <<0, 0, 10, 10>>]

\* "Here is the result:\n{"components": []}\nThanks"
REPLY_EMPTY == <<Prose, LBrace, Members(<<>>), RBrace, Prose>>

\* no JSON at all
REPLY_PROSE == <<Prose>>

REPLY_TWO == <<LBrace, Members(<<CompData("text", 95), CompData("table", 80)>>), RBrace>>

\* more components than AVG_COMPONENTS_PER_PAGE
REPLY_MANY ==
    <<LBrace,
      Members([n \in 1..(AVG_COMPONENTS_PER_PAGE + 1) |->
                  CompData(IF n = 1 THEN "header" ELSE "text", 100)]),
      RBrace>>

Replies == {REPLY_PROSE, REPLY_EMPTY, REPLY_TWO, REPLY_MANY}

(* ------------------ claude_ocr.py: _parse_claude_response -------------- *)

\* str.find / str.rfind: 0-based position of the first / last ch, or -1
find(response, ch) ==
    LET at == {n \in 1..Len(response) : response[n].k = ch}
    IN  IF at = {} THEN -1
        ELSE (CHOOSE n \in at : \A m \in at : n <= m) - 1

\* rfind that stops at the first occurrence
rfind_first(response, ch) ==
    LET at == {n \in 1..Len(response) : response[n].k = ch}
    IN  IF at = {} THEN -1
        ELSE (CHOOSE n \in at : \A m \in at : n <= m) - 1

rfind(response, ch) ==
    LET at == {n \in 1..Len(response) : response[n].k = ch}
    IN  IF at = {} THEN -1
        ELSE (CHOOSE n \in at : \A m \in at : n >= m) - 1

\* response[a:b]
Slice(response, a, b) == SubSeq(response, a + 1, b)

\* json.loads: a dict for the text of one JSON object, None (an exception)
\* for any other text
json_loads(text) ==
    IF Len(text) = 2 /\ text[1].k = "{" /\ text[2].k = "}"
    THEN [k |-> "dict", has |-> {}]
    ELSE IF Len(text) = 3 /\ text[1].k = "{" /\ text[3].k = "}"
                          /\ text[2].k = "members"
         THEN [k |-> "dict", has |-> DOMAIN text[2] \ {"k"},
               components |-> text[2].components, object |-> text[2]]
         ELSE None

\* ComponentKw with 0.5 as the default confidence
ComponentKwHalfConfidence(comp_data) ==
    IF {"component_id", "type", "content"} \subseteq comp_data.keys
    THEN [component_id |-> comp_data.component_id,
          type         |-> comp_data.type,
          content      |-> comp_data.content,
          confidence   |-> IF "confidence" \in comp_data.keys
                           THEN comp_data.confidence ELSE 50,
          bbox         |-> IF "bbox" \in comp_data.keys
                           THEN comp_data.bbox ELSE <<0, 0, 0, 0>>]
    ELSE None

\* ComponentKw with a default for a missing 'content' (comp_data.get) in
\* place of the KeyError
ComponentKwDefaultContent(comp_data) ==
    IF {"component_id", "type"} \subseteq comp_data.keys
    THEN [component_id |-> comp_data.component_id,
          type         |-> comp_data.type,
          content      |-> comp_data.content,
          confidence   |-> IF "confidence" \in comp_data.keys
                           THEN comp_data.confidence ELSE 90,
          bbox         |-> IF "bbox" \in comp_data.keys
                           THEN comp_data.bbox ELSE <<0, 0, 0, 0>>]
    ELSE None

\* the keyword arguments of Component(...) of lines 227-233, or None for the
\* KeyError of a missing component_id, type or content
ComponentKw(comp_data) ==
    IF {"component_id", "type", "content"} \subseteq comp_data.keys
    THEN [component_id |-> comp_data.component_id,
          type         |-> comp_data.type,
          content      |-> comp_data.content,
          confidence   |-> IF "confidence" \in comp_data.keys
                           THEN comp_data.confidence ELSE 90,
          bbox         |-> IF "bbox" \in comp_data.keys
                           THEN comp_data.bbox ELSE <<0, 0, 0, 0>>]
    ELSE None

\* the loop of lines 224-236: the components that construct, in order
RECURSIVE ParseComponents(_)
ParseComponents(items) ==
    IF items = <<>> THEN <<>>
    ELSE LET kw   == ComponentKw(Head(items))
             rest == ParseComponents(Tail(items))
         IN  IF ~ IsNone(kw) /\ ComponentValid(kw)
             THEN <<Component(kw)>> \o rest
             ELSE rest

\* the parser taking component_count from the reply when the reply states one
parse_claude_response_stated(response, page_number) ==
    LET json_start == find(response, "{")
        json_end   == rfind(response, "}") + 1
        data       == json_loads(Slice(response, json_start, json_end))
        components == ParseComponents(IF "components" \in data.has
                                      THEN data.components ELSE <<>>)
        kw         == [page_number     |-> page_number,
                       component_count |-> IF "component_count" \in data.has
                                           THEN data.object.component_count
                                           ELSE Len(components),
                       components      |-> components]
    IN  IF json_start = -1 \/ json_end = 0 THEN None
        ELSE IF IsNone(data) THEN None
        ELSE IF ~ PageValid(kw) THEN None
        ELSE Page(kw)

\* _parse_claude_response(response, page_number): a Page or None
parse_claude_response(response, page_number) ==
    LET json_start == find(response, "{")
        json_end   == rfind(response, "}") + 1
        data       == json_loads(Slice(response, json_start, json_end))
        components == ParseComponents(IF "components" \in data.has
                                      THEN data.components ELSE <<>>)
        kw         == [page_number     |-> page_number,
                       component_count |-> Len(components),
                       components      |-> components]
    IN  IF json_start = -1 \/ json_end = 0 THEN None
        ELSE IF IsNone(data) THEN None
        ELSE IF ~ PageValid(kw) THEN None
        ELSE Page(kw)

(* ------------------------------- utils.py ------------------------------ *)

\* str.lower() on the suffixes the model uses
Lower(suffix) == IF suffix = ".PDF" THEN ".pdf" ELSE suffix

\* validate_pdf_path without the extension test
validate_pdf_path_any_suffix(pdf_path) == pdf_path.exists

validate_pdf_path(pdf_path) == pdf_path.exists /\ Lower(pdf_path.suffix) = ".pdf"

\* estimate_expected_components with a factor of 10
estimate_expected_components_ten(page_count) == page_count * 10

estimate_expected_components(page_count) == page_count * AVG_COMPONENTS_PER_PAGE

\* a cleanup that removes nothing
clean_temp_images_keeps(dirs, job) == dirs

\* clean_temp_images(job_id) on the set dirs of the scratch directories
\* that exist: rmtree if the job's directory exists
clean_temp_images(dirs, job) == IF job \in dirs THEN dirs \ {job} ELSE dirs

\* The python type of each value of processed_doc.dict(): .dict() turns the
\* nested models into dicts and lists and leaves every other value as it
\* is, so compilation_time is still the datetime object (Config.json_encoders
\* is used by .json() only).
DictTypes ==
    [f \in Range(DOC_FIELDS) |->
        CASE f \in {"job_id", "filename"} -> "str"
          [] f = "compilation_time" -> "datetime"
          [] f \in {"total_pages", "total_components", "expected_components"} -> "int"
          [] f \in {"completeness", "average_confidence"} -> "float"
          [] f = "component_statistics" -> "dict"
          [] OTHER -> "list"]

\* the types json.dump encodes without a default= hook
JSON_TYPES == {"str", "int", "float", "dict", "list", "bool", "NoneType"}

\* json.dump(data, f, indent=2): the encoder writes the members in order and
\* raises TypeError at the first value it cannot encode.  The result is the
\* sequence of the fields written with complete = whether it wrote them all.
json_dump(types) ==
    LET bad == {n \in 1..Len(DOC_FIELDS) : types[DOC_FIELDS[n]] \notin JSON_TYPES}
        stop == IF bad = {} THEN Len(DOC_FIELDS) + 1
                ELSE CHOOSE n \in bad : \A m \in bad : n <= m
    IN  [complete |-> bad = {}, fields |-> SubSeq(DOC_FIELDS, 1, stop - 1)]

(* -------------------------------- state -------------------------------- *)

VARIABLES
    files,            \* pdf_paths of process_batch (pdf_files of
                      \* process_directory): the input paths, in input order
    pc,               \* the position of the run
    i,                \* enumerate(pdf_paths, 1): number of the current file
    processed_docs,   \* the list process_batch / process_directory returns
    call_log,         \* history: [file, doc] of every process_single_pdf call
    job_id,           \* job id of the current process_single_pdf call
    temp_dirs,        \* the job ids whose scratch directory exists
    output_files,     \* the JSON files of OUTPUT_DIR: name -> what was written
    pdf_pages,        \* page count of the PDF file being processed
    total_pages,
    image_paths,      \* the page numbers convert_pdf_to_images returned
    page_idx,         \* how many entries of image_paths the page loop took
    submitted,        \* history: page numbers handed to process_image
    pages,
    total_components,
    confidence_sum,
    confidence_count,
    component_stats,
    attempt,          \* process_image's loop variable
    model_calls,      \* history: _call_bedrock_claude calls for the current page
    slept,            \* history: the time.sleep delay of the last attempt
    last_result,      \* history: the outcome of the last model call of the page
    page,             \* what process_image returned
    processed_doc,    \* the ProcessedDocument assembled at line 96
    doc,              \* what process_single_pdf returned
    built,            \* history: the last direct construction of a model
                      \* of models.py, [model, kw, obj]
    run               \* main(): the parsed arguments, the CLAUDE_MODEL names
                      \* of the modules, the client's model_id, the modelId
                      \* of every request, the summary and the exit

vars ==
    <<files, pc, i, processed_docs, call_log, job_id, temp_dirs,
      output_files, pdf_pages, total_pages, image_paths, page_idx, submitted,
      pages, total_components, confidence_sum, confidence_count,
      component_stats, attempt, model_calls, slept, last_result, page,
      processed_doc, doc, built, run>>

\* the variables of one process_single_pdf call
doc_vars ==
    <<pdf_pages, total_pages, image_paths, page_idx, submitted, pages,
      total_components, confidence_sum, confidence_count, component_stats,
      processed_doc>>

\* the variables of one process_image call
image_vars == <<attempt, model_calls, slept, last_result>>

batch_vars == <<files, built, run, i, processed_docs, call_log>>

(* ------------------------------- inputs -------------------------------- *)

Paths ==
    { [exists |-> TRUE, suffix |-> ".pdf"], [exists |-> TRUE, suffix |-> ".PDF"],
      [exists |-> FALSE, suffix |-> ".pdf"], [exists |-> TRUE, suffix |-> ".txt"] }

Inputs == UNION { [1..n -> Paths] : n \in 1..MaxFiles }

\* botocore ClientError codes of invoke_model
ErrorCodes ==
    {"ThrottlingException", "AccessDeniedException", "ServiceUnavailableException"}

\* what one _call_bedrock_claude call can do: return the reply text, raise
\* ClientError with a code, or raise another exception (a connection error,
\* ValueError("No content in response"), ...)
CallResults ==
    { [kind |-> "reply", text |-> r] : r \in Replies }
      \cup { [kind |-> "ClientError", code |-> c] : c \in ErrorCodes }
      \cup { [kind |-> "Exception"] }

NoResult == [kind |-> "none"]

(* ------------------- config.py and the imports of main.py -------------- *)

\* config.py line 25
CLAUDE_MODEL == "anthropic.claude-3-opus-20240229"

\* main.py lines 111-115: the choices of --model
ModelChoices ==
    {"anthropic.claude-3-opus-20240229", "anthropic.claude-3-sonnet-20240229",
     "anthropic.claude-3-5-sonnet-20241022"}

\* args.model when --model is not given (None)
NotGiven == "None"

\* The state of main() after parse_args with args.model = model.  The
\* imports at the top of main.py have run: config.py has bound
\* config.CLAUDE_MODEL, and "from .config import CLAUDE_MODEL" (claude_ocr.py
\* line 12) has bound the name CLAUDE_MODEL of the module claude_ocr to the
\* same string.  The two names are separate bindings from then on.
AfterImport(model) ==
    [args_model              |-> model,
     config_CLAUDE_MODEL     |-> CLAUDE_MODEL,
     claude_ocr_CLAUDE_MODEL |-> CLAUDE_MODEL,
     model_id                |-> "unset",
     modelIds                |-> <<>>,
     summary                 |-> None,
     reported                |-> FALSE,
     exit                    |-> "running"]

\* nothing has run yet
Fresh ==
    /\ i = 0
    /\ processed_docs = <<>>
    /\ call_log = <<>>
    /\ job_id = 0
    /\ temp_dirs = {}
    /\ output_files = [n \in {} |-> 0]
    /\ pdf_pages = 0
    /\ total_pages = 0
    /\ image_paths = <<>>
    /\ page_idx = 0
    /\ submitted = <<>>
    /\ pages = <<>>
    /\ total_components = 0
    /\ confidence_sum = 0
    /\ confidence_count = 0
    /\ component_stats = ComponentStatistics
    /\ attempt = 0
    /\ model_calls = 0
    /\ slept = 0
    /\ last_result = NoResult
    /\ page = None
    /\ processed_doc = None
    /\ doc = None
    /\ built = None

Init ==
    /\ files \in Inputs
    /\ pc = "loop"
    /\ run = AfterImport(NotGiven)
    /\ Fresh

(* ------------- pipeline.py: process_batch / process_directory ---------- *)

\* process_batch (lines 170-179) and process_directory (lines 141-156) run
\* the same loop over their list of paths; the three actions below are that
\* loop.

\* the loop takes the next file and calls process_single_pdf(pdf_path)
CallProcessSinglePdf ==
    /\ pc = "loop"
    /\ i < Len(files)
    /\ i' = i + 1
    /\ pc' = "validate"
    /\ UNCHANGED <<files, built, run, processed_docs, call_log, job_id, temp_dirs,
                   output_files, page, doc>>
    /\ UNCHANGED doc_vars
    /\ UNCHANGED image_vars

\* a failed document ends the run
ReturnToLoopAborting ==
    /\ pc = "returned"
    /\ call_log' = Append(call_log, [file |-> i, doc |-> doc])
    /\ processed_docs' = IF IsNone(doc) THEN processed_docs
                         ELSE Append(processed_docs, doc)
    /\ pc' = IF IsNone(doc) THEN "done" ELSE "loop"
    /\ job_id' = 0
    /\ pdf_pages' = 0
    /\ total_pages' = 0
    /\ image_paths' = <<>>
    /\ page_idx' = 0
    /\ submitted' = <<>>
    /\ pages' = <<>>
    /\ total_components' = 0
    /\ confidence_sum' = 0
    /\ confidence_count' = 0
    /\ component_stats' = ComponentStatistics
    /\ processed_doc' = None
    /\ doc' = None
    /\ UNCHANGED <<files, built, run, i, temp_dirs, output_files, page>>
    /\ UNCHANGED image_vars

\* doc = self.process_single_pdf(pdf_path); if doc: processed_docs.append(doc)
\* (the locals of the call that returned are gone)
ReturnToLoop ==
    /\ pc = "returned"
    /\ call_log' = Append(call_log, [file |-> i, doc |-> doc])
    /\ processed_docs' = IF IsNone(doc) THEN processed_docs
                         ELSE Append(processed_docs, doc)
    /\ pc' = "loop"
    /\ job_id' = 0
    /\ pdf_pages' = 0
    /\ total_pages' = 0
    /\ image_paths' = <<>>
    /\ page_idx' = 0
    /\ submitted' = <<>>
    /\ pages' = <<>>
    /\ total_components' = 0
    /\ confidence_sum' = 0
    /\ confidence_count' = 0
    /\ component_stats' = ComponentStatistics
    /\ processed_doc' = None
    /\ doc' = None
    /\ UNCHANGED <<files, built, run, i, temp_dirs, output_files, page>>
    /\ UNCHANGED image_vars

\* the loop is over: return processed_docs
ReturnDocs ==
    /\ pc = "loop"
    /\ i = Len(files)
    /\ pc' = "done"
    /\ UNCHANGED <<job_id, temp_dirs, output_files, page, doc>>
    /\ UNCHANGED batch_vars
    /\ UNCHANGED doc_vars
    /\ UNCHANGED image_vars

(* ------------------ pipeline.py: process_single_pdf -------------------- *)

\* lines 46-50: an invalid path returns None at once; else the job id
ValidatePath ==
    /\ pc = "validate"
    /\ IF validate_pdf_path(files[i])
       THEN job_id' = i /\ pc' = "get_pdf_info"
       ELSE job_id' = job_id /\ pc' = "returned"
    /\ UNCHANGED <<temp_dirs, output_files, page, doc>>
    /\ UNCHANGED batch_vars
    /\ UNCHANGED doc_vars
    /\ UNCHANGED image_vars

\* lines 55-56: get_pdf_info opens the PDF and reads its page count, or
\* raises; the exception is caught at line 118
GetPdfInfo ==
    /\ pc = "get_pdf_info"
    /\ \E ok \in BOOLEAN, n \in 1..MaxPages :
          IF ok
          THEN pdf_pages' = n /\ total_pages' = n /\ pc' = "convert"
          ELSE pdf_pages' = pdf_pages /\ total_pages' = total_pages /\ pc' = "finally"
    /\ UNCHANGED <<job_id, temp_dirs, output_files, page, doc, image_paths,
                   page_idx, submitted, pages, total_components, confidence_sum,
                   confidence_count, component_stats, processed_doc>>
    /\ UNCHANGED batch_vars
    /\ UNCHANGED image_vars

\* line 59, pdf_converter.py 46-98: the scratch directory is made, then the
\* pages are rendered to (page_num + 1, image_path) in order; on an error the
\* converter cleans the scratch directory and raises
ConvertPdfToImages ==
    /\ pc = "convert"
    /\ LET made == temp_dirs \cup {job_id}
       IN  \E ok \in BOOLEAN :
              IF ok
              THEN /\ temp_dirs' = made
                   /\ image_paths' = [n \in 1..pdf_pages |-> n]
                   /\ pc' = "pages"
              ELSE /\ temp_dirs' = clean_temp_images(made, job_id)
                   /\ image_paths' = image_paths
                   /\ pc' = "finally"
    /\ UNCHANGED <<job_id, output_files, page, doc, pdf_pages, total_pages,
                   page_idx, submitted, pages, total_components, confidence_sum,
                   confidence_count, component_stats, processed_doc>>
    /\ UNCHANGED batch_vars
    /\ UNCHANGED image_vars

\* line 68 and claude_ocr.py 53-61: the loop takes the next image and calls
\* process_image, which reads the image file (an unreadable file makes it
\* return None without a model call); after the last image, line 91
NextPage ==
    /\ pc = "pages"
    /\ IF page_idx < Len(image_paths)
       THEN /\ page_idx' = page_idx + 1
            /\ submitted' = Append(submitted, image_paths[page_idx + 1])
            /\ \E readable \in BOOLEAN :
                  pc' = IF readable THEN "attempt" ELSE "fold"
       ELSE /\ page_idx' = page_idx
            /\ submitted' = submitted
            /\ pc' = "assemble"
    /\ UNCHANGED <<job_id, temp_dirs, output_files, page, doc, pdf_pages,
                   total_pages, image_paths, pages, total_components,
                   confidence_sum, confidence_count, component_stats,
                   processed_doc>>
    /\ UNCHANGED batch_vars
    /\ UNCHANGED image_vars

(* -------------------- claude_ocr.py: process_image --------------------- *)

\* every ClientError taken for a rate limit
IsThrottlingAnyClientError(r) == r.kind = "ClientError"

\* line 77: error_code == 'ThrottlingException'
IsThrottling(r) == r.kind = "ClientError" /\ r.code = "ThrottlingException"

\* lines 80-82 and 87-89: the exception leaves the attempt loop (it is caught
\* at line 91, which returns None)
Raises(r, att) ==
    \/ r.kind = "ClientError" /\ ~ IsThrottling(r)
    \/ r.kind = "Exception" /\ ~ (att < MAX_RETRIES - 1)

\* the same delay after every throttled attempt
BackoffFlat(r, att) ==
    IF IsThrottling(r) THEN RETRY_DELAY
    ELSE IF r.kind = "Exception" /\ att < MAX_RETRIES - 1 THEN RETRY_DELAY
    ELSE 0

\* a delay after every attempt that gave no page
BackoffEveryFailure(r, att) ==
    IF IsThrottling(r) THEN RETRY_DELAY * (att + 1)
    ELSE IF att < MAX_RETRIES - 1 THEN RETRY_DELAY
    ELSE 0

\* lines 79 and 86: the delay slept after the attempt att (0-based), 0 for
\* no time.sleep
Backoff(r, att) ==
    IF IsThrottling(r) THEN RETRY_DELAY * (att + 1)
    ELSE IF r.kind = "Exception" /\ att < MAX_RETRIES - 1 THEN RETRY_DELAY
    ELSE 0

\* one iteration too many
MoreAttemptsOneMore(att) == att + 1 <= MAX_RETRIES

\* line 64: for attempt in range(MAX_RETRIES): is there an iteration after att
MoreAttempts(att) == att + 1 < MAX_RETRIES

\* one iteration of the loop of lines 64-89: the model call, the parse of
\* its reply, and the handling of the exception
Attempt ==
    /\ pc = "attempt"
    /\ \E r \in CallResults :
          LET page_data == IF r.kind = "reply"
                           THEN parse_claude_response(r.text, image_paths[page_idx])
                           ELSE None
          IN  /\ model_calls' = model_calls + 1
              /\ last_result' = r
              /\ slept' = Backoff(r, attempt)
              /\ IF ~ IsNone(page_data)
                 THEN page' = page_data /\ pc' = "fold" /\ attempt' = attempt
                 ELSE IF Raises(r, attempt) \/ ~ MoreAttempts(attempt)
                 THEN page' = None /\ pc' = "fold" /\ attempt' = attempt
                 ELSE page' = None /\ pc' = "attempt" /\ attempt' = attempt + 1
    /\ UNCHANGED <<job_id, temp_dirs, output_files, doc>>
    /\ UNCHANGED batch_vars
    /\ UNCHANGED doc_vars

(* ------------- pipeline.py: process_single_pdf, continued -------------- *)

\* only text components are counted
CountTypeTextOnly(components, t) ==
    IF t = "text"
    THEN Cardinality({n \in 1..Len(components) : components[n].type = t})
    ELSE 0

CountType(components, t) ==
    Cardinality({n \in 1..Len(components) : components[n].type = t})

SumConfidence(components) ==
    SumSeq([n \in 1..Len(components) |-> components[n].confidence])

\* a failed page ends the page loop
FoldPageAborting ==
    /\ pc = "fold"
    /\ IF ~ IsNone(page)
       THEN /\ pages' = Append(pages, page)
            /\ total_components' = total_components + page.component_count
            /\ component_stats' =
                  [t \in DOMAIN component_stats |->
                      component_stats[t] + CountType(page.components, t)]
            /\ confidence_sum' = confidence_sum + SumConfidence(page.components)
            /\ confidence_count' = confidence_count + Len(page.components)
            /\ pc' = "pages"
       ELSE /\ UNCHANGED <<pages, total_components, component_stats,
                           confidence_sum, confidence_count>>
            /\ pc' = "assemble"
    /\ page' = None
    /\ attempt' = 0
    /\ model_calls' = 0
    /\ slept' = 0
    /\ last_result' = NoResult
    /\ UNCHANGED <<job_id, temp_dirs, output_files, doc, pdf_pages,
                   total_pages, image_paths, page_idx, submitted, processed_doc>>
    /\ UNCHANGED batch_vars

\* a failed page is extracted again until it succeeds
FoldPageRetrying ==
    /\ pc = "fold"
    /\ IF ~ IsNone(page)
       THEN /\ pages' = Append(pages, page)
            /\ total_components' = total_components + page.component_count
            /\ component_stats' =
                  [t \in DOMAIN component_stats |->
                      component_stats[t] + CountType(page.components, t)]
            /\ confidence_sum' = confidence_sum + SumConfidence(page.components)
            /\ confidence_count' = confidence_count + Len(page.components)
            /\ pc' = "pages"
       ELSE /\ UNCHANGED <<pages, total_components, component_stats,
                           confidence_sum, confidence_count>>
            /\ pc' = "attempt"
    /\ page' = None
    /\ attempt' = 0
    /\ model_calls' = 0
    /\ slept' = 0
    /\ last_result' = NoResult
    /\ UNCHANGED <<job_id, temp_dirs, output_files, doc, pdf_pages,
                   total_pages, image_paths, page_idx, submitted, processed_doc>>
    /\ UNCHANGED batch_vars

\* lines 71-88: process_image has returned page (its locals are gone); a
\* Page is appended and folded into the running totals; for None only a
\* warning is logged
FoldPage ==
    /\ pc = "fold"
    /\ IF ~ IsNone(page)
       THEN /\ pages' = Append(pages, page)
            /\ total_components' = total_components + page.component_count
            /\ component_stats' =
                  [t \in DOMAIN component_stats |->
                      component_stats[t] + CountType(page.components, t)]
            /\ confidence_sum' = confidence_sum + SumConfidence(page.components)
            /\ confidence_count' = confidence_count + Len(page.components)
       ELSE UNCHANGED <<pages, total_components, component_stats,
                        confidence_sum, confidence_count>>
    /\ pc' = "pages"
    /\ page' = None
    /\ attempt' = 0
    /\ model_calls' = 0
    /\ slept' = 0
    /\ last_result' = NoResult
    /\ UNCHANGED <<job_id, temp_dirs, output_files, doc, pdf_pages,
                   total_pages, image_paths, page_idx, submitted, processed_doc>>
    /\ UNCHANGED batch_vars

\* DocKw with total_components counting the pages in place of their components
DocKwCountingPages ==
    LET expected_components == estimate_expected_components(total_pages)
    IN  [job_id               |-> job_id,
         filename             |-> i,
         compilation_time     |-> "now",
         total_pages          |-> total_pages,
         total_components     |-> Len(pages),
         expected_components  |-> expected_components,
         completeness         |-> IF expected_components > 0
                                  THEN Ratio(Len(pages), expected_components)
                                  ELSE Ratio(1, 1),
         component_statistics |-> component_stats,
         average_confidence   |-> IF confidence_count > 0
                                  THEN Ratio(confidence_sum, 100 * confidence_count)
                                  ELSE Ratio(0, 1),
         pages                |-> pages]

\* the keyword arguments of lines 96-107
DocKw ==
    LET expected_components == estimate_expected_components(total_pages)
    IN  [job_id               |-> job_id,
         filename             |-> i,
         compilation_time     |-> "now",
         total_pages          |-> total_pages,
         total_components     |-> total_components,
         expected_components  |-> expected_components,
         completeness         |-> IF expected_components > 0
                                  THEN Ratio(total_components, expected_components)
                                  ELSE Ratio(1, 1),
         component_statistics |-> component_stats,
         average_confidence   |-> IF confidence_count > 0
                                  THEN Ratio(confidence_sum, 100 * confidence_count)
                                  ELSE Ratio(0, 1),
         pages                |-> pages]

\* lines 91-107: the record is constructed; a ValidationError is caught at
\* line 118
AssembleDocument ==
    /\ pc = "assemble"
    /\ processed_doc' = ProcessedDocument(DocKw)
    /\ pc' = IF IsNone(processed_doc') THEN "finally" ELSE "save"
    /\ UNCHANGED <<job_id, temp_dirs, output_files, page, doc, pdf_pages,
                   total_pages, image_paths, page_idx, submitted, pages,
                   total_components, confidence_sum, confidence_count,
                   component_stats>>
    /\ UNCHANGED batch_vars
    /\ UNCHANGED image_vars

\* lines 110-116, utils.py 78-87: open(output_path, 'w') creates the file or
\* raises OSError; json.dump writes processed_doc.dict() into it and raises
\* TypeError at a value it cannot encode; line 116 is reached, and the record
\* returned, only if neither raised
SaveJsonOutput ==
    /\ pc = "save"
    /\ \E opened \in BOOLEAN :
          LET written == json_dump(DictTypes)
          IN  IF opened
              THEN /\ output_files' =
                         [n \in DOMAIN output_files \cup {i} |->
                             IF n = i THEN written ELSE output_files[n]]
                   /\ doc' = IF written.complete THEN processed_doc ELSE None
              ELSE /\ output_files' = output_files
                   /\ doc' = None
    /\ pc' = "finally"
    /\ UNCHANGED <<job_id, temp_dirs, page>>
    /\ UNCHANGED batch_vars
    /\ UNCHANGED doc_vars
    /\ UNCHANGED image_vars

\* lines 122-124: finally: clean_temp_images(job_id); then the call returns
Finally ==
    /\ pc = "finally"
    /\ temp_dirs' = clean_temp_images(temp_dirs, job_id)
    /\ pc' = "returned"
    /\ UNCHANGED <<job_id, output_files, page, doc>>
    /\ UNCHANGED batch_vars
    /\ UNCHANGED doc_vars
    /\ UNCHANGED image_vars

(* ---------------------------- specification ---------------------------- *)

Next ==
    \/ CallProcessSinglePdf
    \/ ValidatePath
    \/ GetPdfInfo
    \/ ConvertPdfToImages
    \/ NextPage
    \/ Attempt
    \/ FoldPage
    \/ AssembleDocument
    \/ SaveJsonOutput
    \/ Finally
    \/ ReturnToLoop
    \/ ReturnDocs

Spec == Init /\ [][Next]_vars

(* ------------- models.py exercised directly: construction -------------- *)

\* bounded keyword arguments for ProcessedDocument(...)
SmallPages ==
    LET p0 == [page_number |-> 1, component_count |-> 0, components |-> <<>>]
        p2 == parse_claude_response(REPLY_TWO, 2)
    IN  {<<>>, <<p0>>, <<p2>>, <<p0, p2>>}

DocKwInputs ==
    { [job_id               |-> 1,
       filename             |-> 1,
       compilation_time     |-> "now",
       total_pages          |-> tp,
       total_components     |-> tc,
       expected_components  |-> ec,
       completeness         |-> c,
       component_statistics |-> ComponentStatistics,
       average_confidence   |-> Ratio(0, 1),
       pages                |-> ps] :
        tp \in 0..MaxPages, tc \in 0..2, ec \in {0, AVG_COMPONENTS_PER_PAGE},
        c \in {Ratio(0, 1), Ratio(1, 1), Ratio(AVG_COMPONENTS_PER_PAGE + 1, AVG_COMPONENTS_PER_PAGE)},
        ps \in SmallPages }

InitModels ==
    /\ files = <<>>
    /\ pc = "models"
    /\ run = AfterImport(NotGiven)
    /\ Fresh

\* one construction from one set of keyword arguments
ConstructProcessedDocument ==
    /\ pc = "models"
    /\ IsNone(built)
    /\ \E kw \in DocKwInputs :
          built' = [model |-> "ProcessedDocument", kw |-> kw,
                    obj |-> ProcessedDocument(kw)]
    /\ UNCHANGED <<files, run, pc, i, processed_docs, call_log, job_id, temp_dirs,
                   output_files, page, doc>>
    /\ UNCHANGED doc_vars
    /\ UNCHANGED image_vars

\* bounded keyword arguments for Page(...)
PageKwInputs ==
    { [page_number |-> pn, component_count |-> cc, components |-> cs] :
        pn \in 0..1, cc \in 0..2,
        cs \in {<<>>, <<Component(CompData("text", 95))>>,
                <<Component(CompData("text", 95)), Component(CompData("table", 80))>>} }

ConstructPage ==
    /\ pc = "models"
    /\ IsNone(built)
    /\ \E kw \in PageKwInputs :
          built' = [model |-> "Page", kw |-> kw,
                    obj |-> IF PageValid(kw) THEN Page(kw) ELSE None]
    /\ UNCHANGED <<files, run, pc, i, processed_docs, call_log, job_id, temp_dirs,
                   output_files, page, doc>>
    /\ UNCHANGED doc_vars
    /\ UNCHANGED image_vars

\* bounded keyword arguments for Component(...)
ComponentKwInputs ==
    { [component_id |-> "id", type |-> ty, content |-> "c",
       confidence |-> conf, bbox |-> [n \in 1..len |-> 0]] :
        ty \in Range(COMPONENT_TYPES) \cup {"figure"},
        conf \in {-1, 0, 95, 100, 101},
        len \in 3..5 }

ConstructComponent ==
    /\ pc = "models"
    /\ IsNone(built)
    /\ \E kw \in ComponentKwInputs :
          built' = [model |-> "Component", kw |-> kw,
                    obj |-> IF ComponentValid(kw) THEN Component(kw) ELSE None]
    /\ UNCHANGED <<files, run, pc, i, processed_docs, call_log, job_id, temp_dirs,
                   output_files, page, doc>>
    /\ UNCHANGED doc_vars
    /\ UNCHANGED image_vars

(* ------------ claude_ocr.py exercised directly: the parser ------------- *)

\* largest number of component objects in a reply given to the parser
MaxItems == 2

\* the n-th component object of a reply (component_id n), in one of the
\* forms a model reply can have
ItemForms ==
    {"good", "footer", "no_confidence", "no_bbox", "no_id", "no_type",
     "no_content", "bad_type", "bbox3", "bbox5", "conf_high", "conf_negative"}

AllKeys == {"component_id", "type", "content", "confidence", "bbox"}

Item(n, form) ==
    [keys |-> CASE form = "no_confidence" -> AllKeys \ {"confidence"}
                [] form = "no_bbox"       -> AllKeys \ {"bbox"}
                [] form = "no_id"         -> AllKeys \ {"component_id"}
                [] form = "no_type"       -> AllKeys \ {"type"}
                [] form = "no_content"    -> AllKeys \ {"content"}
                [] OTHER                  -> AllKeys,
     component_id |-> n,
     type |-> CASE form = "bad_type" -> "figure"
                [] form = "footer"   -> "footer"
                [] OTHER             -> "text",
     content |-> "c",
     confidence |-> CASE form = "conf_high"     -> 101
                      [] form = "conf_negative" -> -1
                      [] OTHER                  -> 95,
     bbox |-> CASE form = "bbox3" -> <<0, 0, 10>>
                [] form = "bbox5" -> <<0, 0, 10, 10, 10>>
                [] OTHER          -> <<0, 0, 10, 10>>]

ItemSeqs ==
    UNION { { [n \in 1..len |-> Item(n, forms[n])] : forms \in [1..len -> ItemForms] } :
              len \in 0..MaxItems }

\* the members of a JSON object that also states a component_count
MembersCounted(items, count) ==
    [k |-> "members", components |-> items, component_count |-> count]

\* the reply texts around one JSON object with the members m
ReplyTexts(m) ==
    { <<LBrace, m, RBrace>>,
      <<Prose, LBrace, m, RBrace, Prose>>,
      <<Prose, m>>,
      <<LBrace, m>>,
      <<m, RBrace>>,
      <<RBrace, m, LBrace>>,
      <<LBrace, Prose, LBrace, m, RBrace>>,
      <<LBrace, m, RBrace, Prose, RBrace>>,
      <<LBrace, m, Prose, RBrace>> }

ParseInputs ==
    UNION { ReplyTexts(Members(items)) \cup ReplyTexts(MembersCounted(items, 7)) :
              items \in ItemSeqs }
      \cup {<<Prose>>, <<LBrace, RBrace>>, <<Prose, LBrace, RBrace>>}

\* one call _parse_claude_response(response, page_number)
ParseReply ==
    /\ pc = "models"
    /\ IsNone(built)
    /\ \E response \in ParseInputs, page_number \in 1..MaxPages :
          built' = [model |-> "parse",
                    kw |-> [response |-> response, page_number |-> page_number],
                    obj |-> parse_claude_response(response, page_number)]
    /\ UNCHANGED <<files, run, pc, i, processed_docs, call_log, job_id, temp_dirs,
                   output_files, page, doc>>
    /\ UNCHANGED doc_vars
    /\ UNCHANGED image_vars

NextModels ==
    \/ ConstructProcessedDocument
    \/ ConstructPage
    \/ ConstructComponent
    \/ ParseReply

SpecModels == InitModels /\ [][NextModels]_vars


(* ------------- pipeline.py: get_processing_summary --------------------- *)

RECURSIVE GCD(_, _)
GCD(a, b) == IF b = 0 THEN a ELSE GCD(b, a % b)

\* a/b + c/d, in lowest terms
AddRatio(a, b) ==
    LET num == a.num * b.den + b.num * a.den
        den == a.den * b.den
        g   == GCD(num, den)
    IN  Ratio(num \div g, den \div g)

RECURSIVE SumRatios(_)
SumRatios(s) == IF s = <<>> THEN Ratio(0, 1) ELSE AddRatio(Head(s), SumRatios(Tail(s)))

\* round(x, 4) as a number of ten-thousandths over 10000 (a tie, which
\* python rounds to the even neighbour, is rounded up)
Round4(r) == Ratio((10000 * r.num + r.den \div 2) \div r.den, 10000)

\* get_processing_summary counting a page per document
get_processing_summary_page_each(docs) ==
    IF docs = <<>>
    THEN [error |-> "No documents processed"]
    ELSE [total_documents  |-> Len(docs),
          total_pages      |-> Len(docs),
          total_components |->
              SumSeq([n \in 1..Len(docs) |-> docs[n].total_components]),
          average_confidence   |-> Ratio(0, 10000),
          average_completeness |-> Ratio(0, 10000),
          component_breakdown  |->
              [t \in Range(COMPONENT_TYPES) |->
                  SumSeq([n \in 1..Len(docs) |-> docs[n].component_statistics[t]])]]

\* get_processing_summary(processed_docs), lines 191-216: the dict returned,
\* without its processing_time
get_processing_summary(docs) ==
    IF docs = <<>>
    THEN [error |-> "No documents processed"]
    ELSE LET total_docs == Len(docs)
             conf == SumRatios([n \in 1..Len(docs) |-> docs[n].average_confidence])
             comp == SumRatios([n \in 1..Len(docs) |-> docs[n].completeness])
         IN  [total_documents  |-> total_docs,
              total_pages      |-> SumSeq([n \in 1..Len(docs) |-> docs[n].total_pages]),
              total_components |->
                  SumSeq([n \in 1..Len(docs) |-> docs[n].total_components]),
              average_confidence   |-> Round4(Ratio(conf.num, conf.den * total_docs)),
              average_completeness |-> Round4(Ratio(comp.num, comp.den * total_docs)),
              component_breakdown  |->
                  [t \in Range(COMPONENT_TYPES) |->
                      SumSeq([n \in 1..Len(docs) |-> docs[n].component_statistics[t]])]]

(* ------------------------ main.py: a directory run ---------------------- *)

\* largest number of model requests followed in a run of main
MaxCalls == 2

\* the ProcessedDocument of a PDF of total pages of which the pages ps were
\* extracted (pipeline.py lines 62-107)
SummaryDoc(total, ps) ==
    LET comps == [n \in 1..Len(ps) |-> ps[n].component_count]
        confs == [n \in 1..Len(ps) |-> SumConfidence(ps[n].components)]
        tc    == SumSeq(comps)
    IN  ProcessedDocument(
          [job_id |-> 1, filename |-> 1, compilation_time |-> "now",
           total_pages |-> total,
           total_components |-> tc,
           expected_components |-> estimate_expected_components(total),
           completeness |-> Ratio(tc, estimate_expected_components(total)),
           component_statistics |->
               [t \in Range(COMPONENT_TYPES) |->
                   SumSeq([n \in 1..Len(ps) |-> CountType(ps[n].components, t)])],
           average_confidence |-> IF tc > 0 THEN Ratio(SumSeq(confs), 100 * tc)
                                  ELSE Ratio(0, 1),
           pages |-> ps])

SummaryDocs ==
    { SummaryDoc(1, <<>>),
      SummaryDoc(1, <<parse_claude_response(REPLY_TWO, 1)>>),
      SummaryDoc(2, <<parse_claude_response(REPLY_TWO, 1),
                      parse_claude_response(REPLY_EMPTY, 2)>>),
      SummaryDoc(MaxPages, <<parse_claude_response(REPLY_TWO, 1),
                             parse_claude_response(REPLY_TWO, MaxPages)>>) }

\* the lists process_batch can hand to get_processing_summary
DocLists == UNION { [1..n -> SummaryDocs] : n \in 0..MaxFiles }

\* main() after parse_args and verify_aws_credentials, without --file
InitMain ==
    /\ files = <<>>
    /\ pc = "override"
    /\ run \in {AfterImport(m) : m \in ModelChoices \cup {NotGiven}}
    /\ Fresh

\* lines 132-135: if args.model: config.CLAUDE_MODEL = args.model
OverrideModel ==
    /\ pc = "override"
    /\ run' = IF run.args_model # NotGiven
              THEN [run EXCEPT !.config_CLAUDE_MODEL = run.args_model]
              ELSE run
    /\ pc' = "create_processor"
    /\ UNCHANGED <<files, built, i, processed_docs, call_log, job_id, temp_dirs,
                   output_files, page, doc>>
    /\ UNCHANGED doc_vars
    /\ UNCHANGED image_vars

\* line 138, pipeline.py 34, claude_ocr.py 34: self.model_id = CLAUDE_MODEL,
\* the name of the module claude_ocr
CreateProcessor ==
    /\ pc = "create_processor"
    /\ run' = [run EXCEPT !.model_id = run.claude_ocr_CLAUDE_MODEL]
    /\ pc' = "process_batch"
    /\ UNCHANGED <<files, built, i, processed_docs, call_log, job_id, temp_dirs,
                   output_files, page, doc>>
    /\ UNCHANGED doc_vars
    /\ UNCHANGED image_vars

\* claude_ocr.py 180-185: a request of the batch:
\* invoke_model(modelId=self.model_id, ...)
InvokeModel ==
    /\ pc = "process_batch"
    /\ Len(run.modelIds) < MaxCalls
    /\ run' = [run EXCEPT !.modelIds = Append(run.modelIds, run.model_id)]
    /\ UNCHANGED <<files, pc, built, i, processed_docs, call_log, job_id,
                   temp_dirs, output_files, page, doc>>
    /\ UNCHANGED doc_vars
    /\ UNCHANGED image_vars

\* line 164: processed_docs = processor.process_batch(pdf_files)
ProcessBatchReturns ==
    /\ pc = "process_batch"
    /\ \E docs \in DocLists : processed_docs' = docs
    /\ pc' = "summary"
    /\ UNCHANGED <<files, built, run, i, call_log, job_id, temp_dirs,
                   output_files, page, doc>>
    /\ UNCHANGED doc_vars
    /\ UNCHANGED image_vars

\* line 167: summary = processor.get_processing_summary(processed_docs)
GetProcessingSummary ==
    /\ pc = "summary"
    /\ run' = [run EXCEPT !.summary = get_processing_summary(processed_docs)]
    /\ pc' = "report"
    /\ UNCHANGED <<files, built, i, processed_docs, call_log, job_id, temp_dirs,
                   output_files, page, doc>>
    /\ UNCHANGED doc_vars
    /\ UNCHANGED image_vars

\* the keys main reads from the summary, lines 172-178
SUMMARY_KEYS ==
    {"total_documents", "total_pages", "total_components", "average_confidence",
     "average_completeness", "component_breakdown"}

\* lines 169-186: the summary is logged and main returns; summary[...] of a
\* key the dict lacks raises KeyError, which "except Exception" turns into
\* sys.exit(1)
ReportSummary ==
    /\ pc = "report"
    /\ run' = IF SUMMARY_KEYS \subseteq DOMAIN run.summary
              THEN [run EXCEPT !.reported = TRUE, !.exit = "0"]
              ELSE [run EXCEPT !.exit = "1"]
    /\ pc' = "exited"
    /\ UNCHANGED <<files, built, i, processed_docs, call_log, job_id, temp_dirs,
                   output_files, page, doc>>
    /\ UNCHANGED doc_vars
    /\ UNCHANGED image_vars

NextMain ==
    \/ OverrideModel
    \/ CreateProcessor
    \/ InvokeModel
    \/ ProcessBatchReturns
    \/ GetProcessingSummary
    \/ ReportSummary

SpecMain == InitMain /\ [][NextMain]_vars
(* ============================== properties ============================= *)

\* process_image has just returned None for the current page
PageFailed == pc = "fold" /\ IsNone(page)

\* C1: for every page and every sequence of call outcomes process_image
\* makes at most MAX_RETRIES model calls; the calls of a page are counted by
\* an attempt counter that starts at zero for that page, so a page whose
\* every call was throttled or gave an unparseable reply has had all
\* MAX_RETRIES calls, whatever the pages before it used.
C1_AtMostMaxRetriesPerPage ==
    /\ model_calls <= MAX_RETRIES
    /\ pc = "attempt" => attempt < MAX_RETRIES /\ model_calls = attempt
    /\ pc = "fold" /\ model_calls > 0 => model_calls = attempt + 1
    /\ ( /\ PageFailed
         /\ \/ IsThrottling(last_result)
            \/ last_result.kind \in {"reply", "Exception"} )
       => model_calls = MAX_RETRIES

\* a second page gets all MAX_RETRIES calls after the first page failed
C1_Witness ==
    /\ PageFailed
    /\ page_idx = 2
    /\ pages = <<>>
    /\ model_calls = MAX_RETRIES
    /\ IsThrottling(last_result)

\* C2: a page whose extraction failed leaves pages, total_components, the
\* per-type tally and the confidence sum and count as they were and the page
\* loop goes on, so that every page of the document has been submitted when
\* the record is assembled.
C2_FailedPageSkipped ==
    /\ [][ PageFailed =>
             /\ pc' = "pages"
             /\ UNCHANGED <<pages, total_components, component_stats,
                            confidence_sum, confidence_count>> ]_vars
    /\ [](submitted = SubSeq(image_paths, 1, page_idx))
    /\ [](pc = "assemble" =>
             submitted = [n \in 1..total_pages |-> n])

\* the record is assembled after page 1 failed and a later page was extracted
C2_Witness ==
    /\ pc = "assemble"
    /\ pages # <<>>
    /\ pages[1].page_number > 1

\* the page loop of this call has run to its end
Assembled == pc \in {"save", "finally", "returned"} /\ image_paths # <<>>

PageComponentCounts(ps) == [n \in 1..Len(ps) |-> ps[n].component_count]

\* C3 (as claimed): when rasterization succeeded, process_single_pdf returns
\* a record with total_pages = N, pages = the extracted pages and
\* total_components = the sum of their component counts.
C3_ReturnsRecordOfExtractedPages ==
    (pc = "returned" /\ image_paths # <<>>) =>
        /\ ~ IsNone(doc)
        /\ doc.total_pages = pdf_pages
        /\ doc.pages = pages
        /\ doc.total_components = SumSeq(PageComponentCounts(pages))

C5_ConstructionRejectsMismatch ==
    (~ IsNone(built) /\ built.model = "ProcessedDocument" /\ ~ IsNone(built.obj)) =>
        /\ built.kw.total_pages = Len(built.kw.pages)
        /\ built.kw.total_components = SumSeq(PageComponentCounts(built.kw.pages))

\* C6: when a process_single_pdf call that passed input validation returns,
\* the scratch directory of its job does not exist, on every path.
C6_ScratchRemovedOnReturn ==
    /\ pc = "returned" => job_id \notin temp_dirs
    /\ pc \in {"loop", "done"} => temp_dirs = {}

\* the call returns after its pages were rendered and the write of the JSON
\* file failed
C6_Witness ==
    /\ pc = "returned"
    /\ job_id # 0
    /\ image_paths # <<>>
    /\ ~ IsNone(processed_doc)
    /\ IsNone(doc)

NonThrottlingClientError(r) == r.kind = "ClientError" /\ r.code # "ThrottlingException"

\* C7: a provider error that is not a rate-limit error ends the page's
\* attempt loop on the attempt where it occurs: the page has failed and no
\* further model call is made for it.
C7_ProviderErrorEndsLoop ==
    NonThrottlingClientError(last_result) =>
        PageFailed /\ model_calls = attempt + 1

\* such an error on the first attempt, with attempts remaining
C7_Witness ==
    /\ NonThrottlingClientError(last_result)
    /\ attempt = 0
    /\ PageFailed

\* the provider error codes that report an authorization or configuration
\* problem
AuthConfigCodes == {"AccessDeniedException"}

\* C8 (as claimed): a page that failed on a failure of the model call that
\* is neither a rate-limit error nor an authorization/configuration error
\* has had MAX_RETRIES attempts, with RETRY_DELAY slept before each retry.
C8_OtherFailuresRetried ==
    LET other == \/ last_result.kind = "Exception"
                 \/ /\ NonThrottlingClientError(last_result)
                    /\ last_result.code \notin AuthConfigCodes
    IN  /\ (PageFailed /\ other) => model_calls = MAX_RETRIES
        /\ (pc = "attempt" /\ other) => slept = RETRY_DELAY

RECURSIVE ReturnedDocs(_)
ReturnedDocs(log) ==
    IF log = <<>> THEN <<>>
    ELSE IF IsNone(Head(log).doc) THEN ReturnedDocs(Tail(log))
         ELSE <<Head(log).doc>> \o ReturnedDocs(Tail(log))

\* C9: process_single_pdf is called exactly once for every input file, in
\* input order, whatever the earlier files did, and the list returned is
\* exactly the records of the calls that returned one, in that order.
C9_EveryFileOnceInOrder ==
    /\ \A n \in 1..Len(call_log) : call_log[n].file = n
    /\ Len(call_log) = IF pc \in {"loop", "done"} THEN i ELSE i - 1
    /\ pc = "done" => Len(call_log) = Len(files)
    /\ processed_docs = ReturnedDocs(call_log)

\* the run is over; the first document failed after its path was accepted
\* and the second file was processed all the same
C9_Witness ==
    /\ pc = "done"
    /\ Len(files) >= 2
    /\ validate_pdf_path(files[1])
    /\ IsNone(call_log[1].doc)
    /\ 2 \in DOMAIN output_files

\* C10 (as claimed): the record is assembled whatever the number of
\* components, also with more than expected_components.
C10_AssembledAboveExpected ==
    (Assembled /\ total_components > estimate_expected_components(total_pages))
        => ~ IsNone(processed_doc)


(* ------------------- the parser's view of a reply ---------------------- *)

\* the component objects of the reply's JSON object
ReplyItems(response) ==
    LET at == {n \in 1..Len(response) : response[n].k = "members"}
    IN  IF at = {} THEN <<>> ELSE response[CHOOSE n \in at : TRUE].components

\* the reply is one JSON object with members, with nothing but prose around it
ObjectWithProseAround(response) ==
    \E a \in 1..Len(response) :
        /\ a + 2 <= Len(response)
        /\ response[a].k = "{"
        /\ response[a + 1].k = "members"
        /\ response[a + 2].k = "}"
        /\ \A n \in (1..Len(response)) \ {a, a + 1, a + 2} : response[n].k = "prose"

\* a component object the parser is to drop
Dropped(c) ==
    \/ ~ ({"component_id", "type", "content"} \subseteq c.keys)
    \/ c.type \notin {"text", "table", "image", "header", "footer"}
    \/ ("bbox" \in c.keys /\ Len(c.bbox) # 4)
    \/ ("confidence" \in c.keys /\ (c.confidence < 0 \/ c.confidence > 100))

Kept(c) == ~ Dropped(c)

ParsedReply == ~ IsNone(built) /\ built.model = "parse"

C12_CountIsNumberOfValidated ==
    ParsedReply =>
        LET kept == SelectSeq(ReplyItems(built.kw.response), Kept)
        IN  /\ ~ IsNone(built.obj) =>
                  /\ built.obj.component_count = Len(built.obj.components)
                  /\ built.obj.component_count = Len(kept)
                  /\ built.obj.page_number = built.kw.page_number
            /\ (ObjectWithProseAround(built.kw.response) /\ kept = <<>>) =>
                  /\ ~ IsNone(built.obj)
                  /\ built.obj.component_count = 0
                  /\ built.obj.components = <<>>

\* a reply that states 7 components, all of whose component objects are
\* invalid: the Page has count 0
C12_Witness ==
    /\ ParsedReply
    /\ \E n \in 1..Len(built.kw.response) :
          /\ built.kw.response[n].k = "members"
          /\ "component_count" \in DOMAIN built.kw.response[n]
    /\ Len(ReplyItems(built.kw.response)) = MaxItems
    /\ ~ IsNone(built.obj)
    /\ built.obj.component_count = 0
    /\ built.obj.page_number = built.kw.page_number


\* C13: constructing a Page whose component_count differs from the length of
\* its components fails at construction.
C13_PageRejectsCountMismatch ==
    (~ IsNone(built) /\ built.model = "Page"
        /\ built.kw.component_count # Len(built.kw.components))
        => IsNone(built.obj)

\* the text from the first '{' through the last '}' of the reply
Candidate(response) ==
    LET opens  == {n \in 1..Len(response) : response[n].k = "{"}
        closes == {n \in 1..Len(response) : response[n].k = "}"}
    IN  SubSeq(response,
               CHOOSE n \in opens : \A m \in opens : n <= m,
               CHOOSE n \in closes : \A m \in closes : n >= m)

HasBraces(response) ==
    /\ \E n \in 1..Len(response) : response[n].k = "{"
    /\ \E n \in 1..Len(response) : response[n].k = "}"

\* the text is one JSON object
IsJsonObject(text) ==
    /\ Len(text) \in {2, 3}
    /\ text[1].k = "{"
    /\ text[Len(text)].k = "}"
    /\ Len(text) = 3 => text[2].k = "members"

\* C17: the parser takes the text from the first '{' to the last '}' as the
\* JSON candidate, so prose before and after the object is ignored; a reply
\* with no '{' or no '}', or whose candidate is not valid JSON, makes the
\* parser return failure (no Page) instead of raising.
C17_CandidateIsFirstOpenToLastClose ==
    ParsedReply =>
        /\ ~ HasBraces(built.kw.response) => IsNone(built.obj)
        /\ HasBraces(built.kw.response) =>
              (IsNone(built.obj) <=> ~ IsJsonObject(Candidate(built.kw.response)))
        /\ ~ IsNone(built.obj) =>
              built.obj = parse_claude_response(Candidate(built.kw.response),
                                                built.kw.page_number)

\* a JSON object with prose on both sides, parsed into a Page with components
C17_Witness ==
    /\ ParsedReply
    /\ Len(built.kw.response) = 5
    /\ built.kw.response[1].k = "prose"
    /\ built.kw.response[5].k = "prose"
    /\ ~ IsNone(built.obj)
    /\ Len(built.obj.components) = MaxItems

\* C18: Component construction succeeds for a type in the five types with a
\* confidence in [0,1] and a bbox of four integers, and fails for a type
\* outside the set or a bbox whose length is not 4.
C18_ComponentConstruction ==
    (~ IsNone(built) /\ built.model = "Component") =>
        /\ (/\ built.kw.type \in {"text", "table", "image", "header", "footer"}
            /\ built.kw.confidence >= 0 /\ built.kw.confidence <= 100
            /\ Len(built.kw.bbox) = 4)
              => built.obj = built.kw
        /\ (\/ built.kw.type \notin {"text", "table", "image", "header", "footer"}
            \/ Len(built.kw.bbox) # 4)
              => IsNone(built.obj)

\* a construction refused for its type alone
C18_Witness ==
    /\ ~ IsNone(built)
    /\ built.model = "Component"
    /\ built.kw.type = "figure"
    /\ built.kw.confidence = 95
    /\ Len(built.kw.bbox) = 4
    /\ IsNone(built.obj)


\* C14: the ProcessedDocument that process_single_pdf assembles, and any it
\* returns, has total_components equal to the sum of component_count over
\* its pages, after any sequence of page successes and failures.
C14_TotalComponentsIsSumOfCounts ==
    /\ ~ IsNone(processed_doc) =>
          processed_doc.total_components
              = SumSeq(PageComponentCounts(processed_doc.pages))
    /\ ~ IsNone(doc) =>
          doc.total_components = SumSeq(PageComponentCounts(doc.pages))
    /\ \A n \in 1..Len(processed_docs) :
          processed_docs[n].total_components
              = SumSeq(PageComponentCounts(processed_docs[n].pages))

\* a record assembled after a failed page and a page with two components
C14_Witness ==
    /\ pc = "save"
    /\ ~ IsNone(processed_doc)
    /\ Len(processed_doc.pages) < Len(image_paths)
    /\ processed_doc.total_components = 2
    /\ \E n \in 1..Len(processed_doc.pages) :
          processed_doc.pages[n].component_count = 2

\* process_single_pdf got a job id and failed before any page image existed:
\* get_pdf_info or convert_pdf_to_images raised
FailedBeforePages ==
    /\ pc \in {"finally", "returned"}
    /\ job_id # 0
    /\ image_paths = <<>>

\* C15: when reading the PDF metadata or rasterizing fails, process_single_pdf
\* returns no record, makes no model call for the document, writes no JSON
\* output for it, and its scratch directory is gone already when the
\* pipeline's own cleanup runs, which then changes nothing.
C15_EarlyFailureLeavesNothing ==
    FailedBeforePages =>
        /\ IsNone(doc)
        /\ IsNone(processed_doc)
        /\ submitted = <<>>
        /\ model_calls = 0
        /\ i \notin DOMAIN output_files
        /\ job_id \notin temp_dirs
        /\ clean_temp_images(temp_dirs, job_id) = temp_dirs

\* the rasterizer failed on a PDF whose metadata was read
C15_Witness ==
    /\ pc = "finally"
    /\ job_id # 0
    /\ pdf_pages > 0
    /\ image_paths = <<>>
    /\ IsNone(doc)

\* the path does not exist or its extension is not .pdf in any case
InvalidPath(pdf_path) ==
    ~ pdf_path.exists \/ pdf_path.suffix \notin {".pdf", ".PDF"}

\* C16: for a path that does not exist or has no .pdf extension (in any
\* case), process_single_pdf returns no record at once: no job id, no scratch
\* directory, the PDF not opened, no model call, no output file; a path that
\* exists with a .pdf or .PDF extension goes on and gets a job id.
C16_InvalidPathFailsAtOnce ==
    [][ pc = "validate" =>
          IF InvalidPath(files[i])
          THEN /\ pc' = "returned"
               /\ IsNone(doc')
               /\ job_id' = 0
               /\ pdf_pages' = 0
               /\ model_calls' = 0
               /\ UNCHANGED <<temp_dirs, output_files, submitted, image_paths,
                              processed_doc>>
          ELSE /\ pc' = "get_pdf_info"
               /\ job_id' # 0 ]_vars

\* a call returned for a file that exists and is no PDF
C16_Witness ==
    /\ pc = "returned"
    /\ job_id = 0
    /\ files[i].exists
    /\ files[i].suffix = ".txt"
    /\ IsNone(doc)
    /\ i \notin DOMAIN output_files

\* C19: expected_components is the PDF page count times 8 and completeness
\* of the assembled record is total_components / expected_components, or 1.0
\* when expected_components is 0; 5 pages give 40, and 20 components of 40
\* give 0.5 (2 * total_components = expected_components).
C19_ExpectedAndCompleteness ==
    /\ estimate_expected_components(5) = 40
    /\ LET c == calculate_completeness(Ratio(0, 1),
                    [total_components |-> 20,
                     expected_components |-> estimate_expected_components(5)])
       IN  2 * c.num = c.den
    /\ calculate_completeness(Ratio(0, 1),
           [total_components |-> 0, expected_components |-> 0]) = Ratio(1, 1)
    /\ ~ IsNone(processed_doc) =>
          /\ processed_doc.expected_components = pdf_pages * 8
          /\ processed_doc.expected_components > 0
          /\ processed_doc.completeness.num = processed_doc.total_components
          /\ processed_doc.completeness.den = processed_doc.expected_components

\* a record assembled for a PDF of more than one page with components on it
C19_Witness ==
    /\ pc = "save"
    /\ ~ IsNone(processed_doc)
    /\ pdf_pages > 1
    /\ processed_doc.total_components > 0
    /\ processed_doc.expected_components = 8 * pdf_pages

\* C20 (as claimed): the JSON file save_json_output writes for an assembled
\* document holds every field of the record, so that parsing it back gives
\* the field values again.
C20_JsonFileHoldsEveryField ==
    \A n \in DOMAIN output_files :
        /\ output_files[n].complete
        /\ output_files[n].fields = DOC_FIELDS


\* the sum of f over the documents, one document at a time
RECURSIVE TotalOver(_, _)
TotalOver(docs, f) ==
    IF docs = <<>> THEN 0 ELSE docs[1][f] + TotalOver(Tail(docs), f)

RECURSIVE TypeTotalOver(_, _)
TypeTotalOver(docs, t) ==
    IF docs = <<>> THEN 0
    ELSE docs[1].component_statistics[t] + TypeTotalOver(Tail(docs), t)

\* C21: for a non-empty list of processed documents get_processing_summary
\* reports total_documents = the number of documents, total_pages and
\* total_components = the sums of the documents' fields, and for each of the
\* five types a breakdown counter = the sum of that counter over the
\* documents.
C21_SummaryTotals ==
    (pc \in {"report", "exited"} /\ processed_docs # <<>>) =>
        /\ run.summary.total_documents = Len(processed_docs)
        /\ run.summary.total_pages = TotalOver(processed_docs, "total_pages")
        /\ run.summary.total_components = TotalOver(processed_docs, "total_components")
        /\ DOMAIN run.summary.component_breakdown
              = {"text", "table", "image", "header", "footer"}
        /\ \A t \in {"text", "table", "image", "header", "footer"} :
              run.summary.component_breakdown[t] = TypeTotalOver(processed_docs, t)

\* the summary of a full list of documents of different page counts
C21_Witness ==
    /\ pc = "report"
    /\ Len(processed_docs) = MaxFiles
    /\ processed_docs[1].total_pages # processed_docs[MaxFiles].total_pages
    /\ run.summary.total_documents = MaxFiles
    /\ run.summary.total_pages > MaxFiles
    /\ run.summary.component_breakdown["table"] > 0

\* C22 (as claimed): when --model selects a model identifier, every request
\* of the run has that identifier as its modelId.
C22_RequestsUseSelectedModel ==
    run.args_model # NotGiven =>
        \A n \in 1..Len(run.modelIds) : run.modelIds[n] = run.args_model

\* C23 (as claimed): a directory run of main ends with the summary reported
\* and without an error exit, whatever list process_batch returned.
C23_RunEndsWithSummary ==
    pc = "exited" => (run.reported /\ run.exit = "0")


InitCall ==
    /\ files \in [1..1 -> Paths]
    /\ pc = "loop"
    /\ run = AfterImport(NotGiven)
    /\ Fresh

FairSpec == InitCall /\ [][Next]_vars /\ WF_vars(Next)

\* C25: every call of process_single_pdf reaches its return, with a record
\* or with nothing, for every sequence of model-call outcomes.
C25_CallTerminates == (pc = "validate") ~> (pc = "returned")

\* a call returned after every page of a PDF of MaxPages pages was submitted
C25_Witness ==
    /\ pc = "returned"
    /\ Len(submitted) = MaxPages
    /\ Len(pages) < MaxPages

PageNumbers(ps) == [n \in 1..Len(ps) |-> ps[n].page_number]

StrictlyIncreasing(s) == \A m, n \in 1..Len(s) : m < n => s[m] < s[n]

\* C26: the rasterizer returns one entry per PDF page, numbered 1..N in
\* order; the pages are submitted in that order; in the pages collected and
\* in every assembled document the page_number values are strictly
\* increasing and lie in 1..total_pages.
C26_PagesInOrder ==
    /\ image_paths # <<>> =>
          /\ Len(image_paths) = pdf_pages
          /\ \A n \in 1..Len(image_paths) : image_paths[n] = n
    /\ Len(submitted) = page_idx
    /\ \A n \in 1..Len(submitted) : submitted[n] = n
    /\ StrictlyIncreasing(PageNumbers(pages))
    /\ \A n \in 1..Len(pages) : pages[n].page_number \in 1..total_pages
    /\ ~ IsNone(processed_doc) =>
          /\ StrictlyIncreasing(PageNumbers(processed_doc.pages))
          /\ \A n \in 1..Len(processed_doc.pages) :
                processed_doc.pages[n].page_number \in 1..processed_doc.total_pages

\* a record with the pages 1 and 3 of a PDF whose page 2 failed
C26_Witness ==
    /\ pc = "save"
    /\ ~ IsNone(processed_doc)
    /\ PageNumbers(processed_doc.pages) = <<1, 3>>
    /\ submitted = <<1, 2, 3>>

\* the number of components of type t on the pages ps
RECURSIVE ComponentsOfType(_, _)
ComponentsOfType(ps, t) ==
    IF ps = <<>> THEN 0
    ELSE Len(SelectSeq(Head(ps).components, LAMBDA c : c.type = t))
            + ComponentsOfType(Tail(ps), t)

\* C27: in the ProcessedDocument that process_single_pdf assembles the five
\* counters of component_statistics sum to total_components, and each
\* counter is the number of components of its type over the pages of the
\* record.
C27_StatisticsTallyComponents ==
    ~ IsNone(processed_doc) =>
        /\ processed_doc.component_statistics["text"]
             + processed_doc.component_statistics["table"]
             + processed_doc.component_statistics["image"]
             + processed_doc.component_statistics["header"]
             + processed_doc.component_statistics["footer"]
             = processed_doc.total_components
        /\ \A t \in {"text", "table", "image", "header", "footer"} :
              processed_doc.component_statistics[t]
                  = ComponentsOfType(processed_doc.pages, t)

\* a record of two pages with text, table and header components
C27_Witness ==
    /\ pc = "save"
    /\ ~ IsNone(processed_doc)
    /\ Len(processed_doc.pages) = 2
    /\ processed_doc.component_statistics["table"] = 1
    /\ processed_doc.component_statistics["header"] = 1
    /\ processed_doc.component_statistics["text"] > 1


\* the reply of the last model call does not parse into a Page
Unparseable(r, page_number) ==
    r.kind = "reply" /\ IsNone(parse_claude_response(r.text, page_number))

\* C28: process_image never raises to its caller: an unreadable image file,
\* a non-throttling provider error, throttling on every attempt, another
\* exception on the last attempt and an unparseable reply on every attempt
\* all make it return None, and the page loop goes on to the next page.
C28_ProcessImageReturnsNone ==
    [][ /\ (pc = "pages" /\ pc' = "fold") => IsNone(page')
        /\ pc = "attempt" =>
              /\ pc' \in {"attempt", "fold"}
              /\ (pc' = "fold" /\ (\/ last_result'.kind \in {"ClientError", "Exception"}
                                   \/ Unparseable(last_result', image_paths[page_idx])))
                    => IsNone(page')
        /\ pc = "fold" =>
              /\ pc' = "pages"
              /\ UNCHANGED <<doc, processed_doc, page_idx, image_paths>> ]_vars

\* process_image returned None after another exception on the last attempt,
\* with pages still to come
C28_Witness ==
    /\ pc = "fold"
    /\ IsNone(page)
    /\ last_result.kind = "Exception"
    /\ attempt = MAX_RETRIES - 1
    /\ page_idx < Len(image_paths)

\* C29: when a model call succeeds and its reply does not parse into a Page,
\* process_image uses up one attempt and calls the model again without a
\* delay, until a reply parses or MAX_RETRIES attempts are made; a page is
\* given up after an unparseable reply only when MAX_RETRIES calls are made.
C29_UnparseableReplyRetriedAtOnce ==
    [][ (pc = "attempt" /\ Unparseable(last_result', image_paths[page_idx])) =>
          /\ slept' = 0
          /\ model_calls' = model_calls + 1
          /\ IsNone(page')
          /\ IF attempt + 1 < MAX_RETRIES
             THEN pc' = "attempt" /\ attempt' = attempt + 1
             ELSE pc' = "fold" /\ model_calls' = MAX_RETRIES ]_vars

\* a page given up after its third reply did not parse
C29_Witness ==
    /\ pc = "fold"
    /\ IsNone(page)
    /\ Unparseable(last_result, image_paths[page_idx])
    /\ model_calls = MAX_RETRIES
    /\ slept = 0

\* C30: a component object with component_id, a valid type and content but
\* without confidence or without bbox is kept, with confidence 0.9 and bbox
\* [0, 0, 0, 0] respectively, and is counted in component_count.
C30_DefaultsForConfidenceAndBbox ==
    (ParsedReply /\ ObjectWithProseAround(built.kw.response)) =>
        LET items == ReplyItems(built.kw.response)
        IN  \A n \in 1..Len(items) :
               (/\ {"component_id", "type", "content"} \subseteq items[n].keys
                /\ items[n].type \in {"text", "table", "image", "header", "footer"}
                /\ ("confidence" \notin items[n].keys \/ "bbox" \notin items[n].keys))
                 => /\ ~ IsNone(built.obj)
                    /\ built.obj.component_count = Len(built.obj.components)
                    /\ \E m \in 1..Len(built.obj.components) :
                          LET c == built.obj.components[m]
                          IN  /\ c.component_id = items[n].component_id
                              /\ "confidence" \notin items[n].keys => c.confidence = 90
                              /\ "bbox" \notin items[n].keys => c.bbox = <<0, 0, 0, 0>>

\* a reply of one object without confidence and one without bbox
C30_Witness ==
    /\ ParsedReply
    /\ ObjectWithProseAround(built.kw.response)
    /\ Len(ReplyItems(built.kw.response)) = 2
    /\ "confidence" \notin ReplyItems(built.kw.response)[1].keys
    /\ "bbox" \notin ReplyItems(built.kw.response)[2].keys
    /\ ~ IsNone(built.obj)
    /\ built.obj.component_count = 2
    /\ built.obj.components[1].confidence = 90
    /\ built.obj.components[2].bbox = <<0, 0, 0, 0>>

====
